---- MODULE Spec2Model ----
(***************************************************************************)
(* Model of lib/sqlalchemy/testing/profiling.py: the ProfileStatsFile      *)
(* ledger (data, backing file, cursor per record) and the comparison done  *)
(* by count_functions, a generator context manager that is entered, yields *)
(* to the body of the with-statement and is resumed when the body returns. *)
(*                                                                         *)
(* A per_platform dict is a TLA+ function whose DOMAIN is the set of keys  *)
(* the Python dict holds ("counts", "current_count", "lineno"), so that    *)
(* "'counts' not in per_platform" is "counts" \notin DOMAIN per_platform.  *)
(* self.data is a function from the test keys present to a function from   *)
(* the platform keys present to per_platform dicts.                        *)
(* The backing file is a sequence of lines; a data line keeps its two key  *)
(* tokens and the text of its third token as a sequence of characters.     *)
(* A file object that _write opened and never closed keeps what it wrote   *)
(* in its buffer until the object is collected; the buffers still pending  *)
(* are the sequence unflushed.                                             *)
(***************************************************************************)
EXTENDS Integers, Sequences, FiniteSets, TLC

(* ------------------------------ bounds --------------------------------- *)

\* longest counts list a run may grow by appending
MaxLen == 2

\* most result() calls a run makes for one test key
MaxCalls == 3

\* most _write() calls made in a row
MaxSaves == 2

\* largest count used by the tolerance specification
MaxCount == 110

\* most file objects left unclosed at one time
MaxLeaks == 1

(* --------------------------- input domains ----------------------------- *)

\* values _current_test takes (set by the harness before each test)
Tests == {"t1", "t2"}

\* platform keys a file may mention; platform_key is the running one
Platforms == {"p1", "p2"}

platform_key == "p1"

\* call counts the profiler reports in the ledger specifications
CallCounts == {0, 100, 106}

\* call counts given to result() and replace() when called directly
DirectCounts == {0, 100}

\* lexical order of the keys, as sorted() sees them
KeyRank(k) ==
    CASE k = "1" -> 1
      [] k = "2" -> 2
      [] k = "p1" -> 3
      [] k = "p2" -> 4
      [] k = "t1" -> 5
      [] k = "t2" -> 6
      [] OTHER -> 0

\* the characters of a key token; "1" and "2" are what is left of a key
\* whose first character was overwritten in the file
KeyChars(k) ==
    CASE k = "1" -> <<"1">>
      [] k = "2" -> <<"2">>
      [] k = "p1" -> <<"p", "1">>
      [] k = "p2" -> <<"p", "2">>
      [] k = "t1" -> <<"t", "1">>
      [] k = "t2" -> <<"t", "2">>
      [] OTHER -> <<"?">>

KeyTexts == {"1", "2", "p1", "p2", "t1", "t2"}

\* the key a token of a line reads as
KeyOfChars(cs) ==
    IF \E k \in KeyTexts : KeyChars(k) = cs
    THEN CHOOSE k \in KeyTexts : KeyChars(k) = cs
    ELSE "?"

(* ---------------------- str(count) and int(token) ---------------------- *)

DigitChars == <<"0", "1", "2", "3", "4", "5", "6", "7", "8", "9">>

DigitChar(d) == DigitChars[d + 1]

DigitVal(ch) == CHOOSE d \in 0..9 : DigitChars[d + 1] = ch

RECURSIVE NatStr(_)
\* decimal digits of a natural number, most significant first
NatStr(n) == IF n < 10 THEN <<DigitChar(n)>>
             ELSE NatStr(n \div 10) \o <<DigitChar(n % 10)>>

\* str(count)
str(count) == IF count < 0 THEN <<"-">> \o NatStr(0 - count) ELSE NatStr(count)

RECURSIVE NatVal(_)
NatVal(s) == IF Len(s) = 0 THEN 0
             ELSE 10 * NatVal(SubSeq(s, 1, Len(s) - 1)) + DigitVal(s[Len(s)])

\* int(token) for a token that str() can produce
int(s) == IF Head(s) = "-" THEN 0 - NatVal(Tail(s)) ELSE NatVal(s)

RECURSIVE join(_)
\* ",".join(str(count) for count in counts)
join(counts) ==
    IF Len(counts) = 0 THEN <<>>
    ELSE IF Len(counts) = 1 THEN str(counts[1])
    ELSE str(counts[1]) \o <<",">> \o join(Tail(counts))

RECURSIVE split(_, _)
\* counts.split(","): cur is the token being read
split(s, cur) ==
    IF Len(s) = 0 THEN <<cur>>
    ELSE IF Head(s) = "," THEN <<cur>> \o split(Tail(s), <<>>)
    ELSE split(Tail(s), Append(cur, Head(s)))

\* [int(count) for count in counts.split(",")]
ParseCounts(s) == LET toks == split(s, <<>>)
                  IN  [i \in 1..Len(toks) |-> int(toks[i])]

(* ------------------------------ the file ------------------------------- *)

CommentLine == [kind |-> "comment"]

BlankLine == [kind |-> "blank"]

\* the middle line of "\n# TEST: {0!s}\n\n".format(test_key)
SectionLine(test_key) == [kind |-> "comment", test_key |-> test_key]

\* "{0!s} {1!s} {2!s}\n".format(test_key, platform_key, c)
DataLine(test_key, pkey, c) ==
    [kind |-> "data", test_key |-> test_key, platform_key |-> pkey, counts |-> c]

\* the lines of a file that _read takes as data lines, in file order
DataLines(lines) == SelectSeq(lines, LAMBDA line : line.kind = "data")

\* number of lines of the header comment block
HeaderLines == 12

_header == [i \in 1..HeaderLines |-> CommentLine]

\* the characters of a line below the header, without its newline
LineChars(line) ==
    CASE line.kind = "blank" -> <<>>
      [] line.kind = "comment" ->
            IF "test_key" \in DOMAIN line
            THEN <<"#", " ", "T", "E", "S", "T", ":", " ">>
                     \o KeyChars(line.test_key)
            ELSE <<"#">>
      [] line.kind = "data" ->
            KeyChars(line.test_key) \o <<" ">> \o KeyChars(line.platform_key)
                \o <<" ">> \o line.counts
      [] OTHER -> line.chars

RECURSIVE Bytes(_)
\* size of the lines in bytes, newlines included
Bytes(lines) ==
    IF Len(lines) = 0 THEN 0
    ELSE Len(LineChars(Head(lines))) + 1 + Bytes(Tail(lines))

RECURSIVE words(_, _)
\* line.split(): the runs of characters other than blanks
words(s, cur) ==
    IF Len(s) = 0 THEN IF cur = <<>> THEN <<>> ELSE <<cur>>
    ELSE IF Head(s) = " "
         THEN (IF cur = <<>> THEN <<>> ELSE <<cur>>) \o words(Tail(s), <<>>)
         ELSE words(Tail(s), Append(cur, Head(s)))

\* the line that the characters cs make: what is left of a line whose
\* first bytes were overwritten
LineOfChars(cs) ==
    LET w == words(cs, <<>>)
    IN  IF cs = <<>> THEN BlankLine
        ELSE IF /\ Len(w) = 3
                /\ cs = w[1] \o <<" ">> \o w[2] \o <<" ">> \o w[3]
                /\ KeyOfChars(w[1]) # "?"
                /\ KeyOfChars(w[2]) # "?"
             THEN DataLine(KeyOfChars(w[1]), KeyOfChars(w[2]), w[3])
             ELSE [kind |-> "fragment", chars |-> cs]

RECURSIVE Rest(_, _)
\* the lines from byte offset n on
Rest(lines, n) ==
    IF n = 0 \/ Len(lines) = 0 THEN lines
    ELSE LET cs == LineChars(Head(lines))
         IN  IF n > Len(cs) THEN Rest(Tail(lines), n - (Len(cs) + 1))
             ELSE <<LineOfChars(SubSeq(cs, n + 1, Len(cs)))>> \o Tail(lines)

\* the lines after the header
Body(lines) == SubSeq(lines, HeaderLines + 1, Len(lines))

\* the file after the buffer buf of an unclosed file object is flushed
\* into it: the object's position is 0, so buf replaces the first bytes
\* and what lies beyond stays.  A file that is not empty was written by
\* _write since the object was opened, so it starts with the same header.
Overlay(buf, lines) ==
    IF Len(lines) = 0 THEN buf
    ELSE buf \o Rest(Body(lines), Bytes(Body(buf)))

(* ------------------------------ the dicts ------------------------------ *)

\* the dict a defaultdict(dict) creates on first access
EmptyDict == [k \in {} |-> 0]

\* d[key] = value on a dict
SetItem(d, key, value) ==
    [k \in DOMAIN d \cup {key} |-> IF k = key THEN value ELSE d[k]]

\* self.data[test_key][pkey], creating both levels as the defaultdicts do
GetRecord(d, test_key, pkey) ==
    IF test_key \in DOMAIN d /\ pkey \in DOMAIN d[test_key]
    THEN d[test_key][pkey] ELSE EmptyDict

\* data after per_platform (reached through the defaultdicts) is set to rec
PutRecord(d, test_key, pkey, rec) ==
    LET per_fn == IF test_key \in DOMAIN d THEN d[test_key] ELSE EmptyDict
    IN  SetItem(d, test_key, SetItem(per_fn, pkey, rec))

RECURSIVE sortedReversed(_)
\* a sort in descending order
sortedReversed(S) ==
    IF S = {} THEN <<>>
    ELSE LET m == CHOOSE x \in S : \A y \in S : KeyRank(x) >= KeyRank(y)
         IN  <<m>> \o sortedReversed(S \ {m})

RECURSIVE sorted(_)
\* sorted(keys) as a sequence
sorted(S) ==
    IF S = {} THEN <<>>
    ELSE LET m == CHOOSE x \in S : \A y \in S : KeyRank(x) <= KeyRank(y)
         IN  <<m>> \o sorted(S \ {m})

(* -------------------------------- _read -------------------------------- *)

\* per_platform as _read sets it from the third token of line lineno + 1
ReadRecord(counts, lineno) ==
    [counts |-> ParseCounts(counts), lineno |-> lineno + 1, current_count |-> 0]

RECURSIVE ReadFrom(_, _, _)
\* the loop of _read from line number lineno + 1 on
ReadFrom(lines, lineno, d) ==
    IF lineno >= Len(lines) THEN [data |-> d, raised |-> "none"]
    ELSE LET line == lines[lineno + 1]
             w == words(line.chars, <<>>)
         IN  CASE line.kind = "data" ->
                    ReadFrom(lines, lineno + 1,
                        PutRecord(d, line.test_key, line.platform_key,
                            ReadRecord(line.counts, lineno)))
               [] line.kind = "fragment" ->
                    IF Len(w) = 0 \/ Head(w[1]) = "#"
                    THEN ReadFrom(lines, lineno + 1, d)
                    ELSE IF Len(w) # 3
                    THEN [data |-> d, raised |-> "ValueError"]
                    ELSE ReadFrom(lines, lineno + 1,
                             PutRecord(d, KeyOfChars(w[1]), KeyOfChars(w[2]),
                                 ReadRecord(w[3], lineno)))
               [] OTHER -> ReadFrom(lines, lineno + 1, d)

\* _read into the data d; a missing file leaves d as it is
_read(f, d) ==
    IF ~f.exists THEN [data |-> d, raised |-> "none"]
    ELSE ReadFrom(f.lines, 0, d)

(* -------------------------------- _write ------------------------------- *)

RECURSIVE WritePlatforms(_, _, _, _)
\* the inner loop of _write over the sorted platform keys pkeys
WritePlatforms(d, test_key, pkeys, out) ==
    IF Len(pkeys) = 0 THEN [lines |-> out, raised |-> "none"]
    ELSE LET per_platform == d[test_key][Head(pkeys)]
         IN  IF "counts" \notin DOMAIN per_platform
             THEN [lines |-> out, raised |-> "KeyError"]
             ELSE WritePlatforms(d, test_key, Tail(pkeys),
                      Append(out, DataLine(test_key, Head(pkeys),
                                           join(per_platform.counts))))

RECURSIVE WriteTests(_, _, _)
\* the outer loop of _write over the sorted test keys tkeys
WriteTests(d, tkeys, out) ==
    IF Len(tkeys) = 0 THEN [lines |-> out, raised |-> "none"]
    ELSE LET w == WritePlatforms(d, Head(tkeys), sorted(DOMAIN d[Head(tkeys)]),
                      out \o <<BlankLine, SectionLine(Head(tkeys)), BlankLine>>)
         IN  IF w.raised # "none" THEN w
             ELSE WriteTests(d, Tail(tkeys), w.lines)

\* _write: the file as it is when _write returns or raises, the exception
\* raised, and leak, the lines left in the buffer of a file object that was
\* not closed.  open(fname, "w") empties the file; the lines reach it at
\* close(), which a KeyError in the loop skips (they stay below the 8192
\* bytes at which the buffer would flush by itself).
_write(d) ==
    LET w == WriteTests(d, sorted(DOMAIN d), _header)
    IN  IF w.raised = "none"
        THEN [file |-> [exists |-> TRUE, lines |-> w.lines],
              raised |-> "none", leak |-> <<>>]
        ELSE [file |-> [exists |-> TRUE, lines |-> <<>>],
              raised |-> w.raised, leak |-> w.lines]

(* ------------------------------- result -------------------------------- *)

\* the value result() returns when there is nothing to compare against
None == <<>>

\* an off-by-one test that finds a slot at the end of counts
HasCountInclusive(counts, current_count) == Len(counts) >= current_count

\* has_count = len(counts) > current_count
has_count(counts, current_count) == Len(counts) > current_count

\* a cursor that moves two slots per call
AdvanceCursorTwice(current_count) == current_count + 2

\* per_platform['current_count'] += 1
AdvanceCursor(current_count) == current_count + 1

\* a result() that forgets to store the new measurement
AppendCountDropped(counts, callcount) == counts

\* counts.append(callcount)
AppendCount(counts, callcount) == Append(counts, callcount)

\* per_platform after the two "not in per_platform" defaults of result()
WithDefaults(per_platform) ==
    LET p1 == IF "counts" \notin DOMAIN per_platform
              THEN SetItem(per_platform, "counts", <<>>) ELSE per_platform
    IN  IF "current_count" \notin DOMAIN p1
        THEN SetItem(p1, "current_count", 0) ELSE p1

\* result(callcount) on data d and file f with self.write = wr and
\* _current_test = test_key: the data and file it leaves, what it returns or
\* raises, and whether it opened the file for writing
result(d, f, wr, test_key, callcount) ==
    LET per_platform == WithDefaults(GetRecord(d, test_key, platform_key))
        counts == per_platform.counts
        current_count == per_platform.current_count
        advanced == SetItem(per_platform, "current_count",
                            AdvanceCursor(current_count))
    IN  IF ~has_count(counts, current_count)
        THEN LET appended == SetItem(per_platform, "counts",
                                     AppendCount(counts, callcount))
                 d1 == PutRecord(d, test_key, platform_key, appended)
                 w  == _write(d1)
             IN  IF wr /\ w.raised # "none"
                 THEN [data |-> d1, file |-> w.file, raised |-> w.raised,
                       ret |-> None, wrote |-> TRUE, leak |-> w.leak]
                 ELSE [data |-> PutRecord(d, test_key, platform_key,
                                   SetItem(appended, "current_count",
                                           AdvanceCursor(current_count))),
                       file |-> IF wr THEN w.file ELSE f, raised |-> "none",
                       ret |-> None, wrote |-> wr, leak |-> <<>>]
        ELSE IF "lineno" \notin DOMAIN per_platform
             THEN [data |-> PutRecord(d, test_key, platform_key, per_platform),
                   file |-> f, raised |-> "KeyError", ret |-> None,
                   wrote |-> FALSE, leak |-> <<>>]
             ELSE [data |-> PutRecord(d, test_key, platform_key, advanced),
                   file |-> f, raised |-> "none",
                   ret |-> <<per_platform.lineno, counts[current_count + 1]>>,
                   wrote |-> FALSE, leak |-> <<>>]

(* ------------------------------- replace ------------------------------- *)

\* position (from 1) of the Python index i in a list of n elements
PyIndex(i, n) == IF i < 0 THEN n + i + 1 ELSE i + 1

\* a replace() that assigns the slot the cursor points at, not the one
\* before it
ReplaceIndexNext(current_count, n) ==
    IF current_count < n THEN PyIndex(current_count, n) ELSE PyIndex(-1, n)

\* a replace() that always assigns the last slot
ReplaceIndexLast(current_count, n) == PyIndex(-1, n)

\* the slot replace() assigns: counts[current_count - 1] or counts[-1]
ReplaceIndex(current_count, n) ==
    IF current_count < n THEN PyIndex(current_count - 1, n) ELSE PyIndex(-1, n)

\* counts after replace() has assigned callcount
ReplaceCounts(counts, current_count, callcount) ==
    [counts EXCEPT ![ReplaceIndex(current_count, Len(counts))] = callcount]

\* replace(callcount), as result() above
replace(d, f, wr, test_key, callcount) ==
    LET per_platform == GetRecord(d, test_key, platform_key)
        d0 == PutRecord(d, test_key, platform_key, per_platform)
    IN  IF "counts" \notin DOMAIN per_platform
        THEN [data |-> d0, file |-> f, raised |-> "KeyError", ret |-> None,
              wrote |-> FALSE, leak |-> <<>>]
        ELSE LET d1 == PutRecord(d, test_key, platform_key,
                           SetItem(per_platform, "counts",
                               ReplaceCounts(per_platform.counts,
                                   per_platform.current_count, callcount)))
                 w  == _write(d1)
             IN  [data |-> d1, file |-> IF wr THEN w.file ELSE f,
                  raised |-> IF wr THEN w.raised ELSE "none", ret |-> None,
                  wrote |-> wr, leak |-> IF wr THEN w.leak ELSE <<>>]

(* ---------------------------- count_functions -------------------------- *)

\* variance=0.05, the default of count_functions and function_call_count,
\* in hundredths
VarianceNum == 5

VarianceDen == 100

\* the variance arguments a test passes, in hundredths: the default and 0.1
Variances == {VarianceNum, 10}

\* has_stats() for _current_test = test_key
has_stats(d, test_key) ==
    test_key \in DOMAIN d /\ platform_key \in DOMAIN d[test_key]

Abs(x) == IF x < 0 THEN 0 - x ELSE x

\* deviance = int(callcount * variance), callcount >= 0
Deviance(callcount, variance) == (callcount * variance) \div VarianceDen

\* a comparison whose tolerance is taken from the expected count
failedOnExpected(callcount, expected_count, variance) ==
    Abs(callcount - expected_count) > Deviance(expected_count, variance)

\* failed = abs(callcount - expected_count) > deviance
failed(callcount, expected_count, variance) ==
    Abs(callcount - expected_count) > Deviance(callcount, variance)

\* "if expected_count:" for expected == result(callcount)
Truthy(expected) == expected # None /\ expected[2] # 0

\* a count_functions that acts on a mismatch only
NeedsActionOnFailure(callcount, expected_count, fw, variance) ==
    failed(callcount, expected_count, variance)

\* "if failed or _profile_stats.force_write:"
NeedsAction(callcount, expected_count, fw, variance) ==
    failed(callcount, expected_count, variance) \/ fw

\* "if not _profile_stats.has_stats() and not _profile_stats.write:"
Skips(d, wr, test_key) == ~has_stats(d, test_key) /\ ~wr

\* count_functions up to its yield: the exception that keeps the body of
\* the with-statement from running, or "none".  cprofile says whether
\* "import cProfile" succeeded; SkipTest is a name the module never binds,
\* so "raise SkipTest(...)" raises NameError.
count_functions_enter(d, wr, test_key, cprofile) ==
    IF ~cprofile THEN "NameError"
    ELSE IF Skips(d, wr, test_key) THEN "SkipTest"
    ELSE "none"

\* count_functions after its yield, for a body that returned after
\* callcount calls were profiled; test_key is _current_test at that time
count_functions_exit(d, f, wr, fw, test_key, callcount, variance) ==
    LET r == result(d, f, wr, test_key, callcount)
    IN  IF r.raised # "none" THEN r
        ELSE IF ~Truthy(r.ret) THEN r
        ELSE IF ~NeedsAction(callcount, r.ret[2], fw, variance) THEN r
        ELSE IF wr
             THEN LET p == replace(r.data, r.file, wr, test_key, callcount)
                  IN  [p EXCEPT !.ret = r.ret,
                                !.wrote = r.wrote \/ p.wrote]
             ELSE [r EXCEPT !.raised = "AssertionError"]

(* ----------------------------- platform_key ---------------------------- *)

RECURSIVE joinTokens(_, _)
\* sep.join(tokens), each token a text (a sequence of characters or words)
joinTokens(sep, tokens) ==
    IF Len(tokens) = 0 THEN <<>>
    ELSE IF Len(tokens) = 1 THEN tokens[1]
    ELSE tokens[1] \o <<sep>> \o joinTokens(sep, Tail(tokens))

\* config.db.name + "_" + config.db.driver
dbapi_key(cfg) == <<cfg.name>> \o <<"_">> \o <<cfg.driver>>

\* '.'.join([str(v) for v in sys.version_info[0:2]])
py_version(cfg) ==
    joinTokens(".", [i \in 1..2 |-> str(SubSeq(cfg.version, 1, 2)[i])])

\* one token, appended when the flag is set
TokenIf(flag, word) == IF flag THEN <<(<<word>>)>> ELSE <<>>

\* the three conditional appends, win ahead of the interpreter flags
FlagTokensWinFirst(cfg) ==
    TokenIf(cfg.win32, "win") \o TokenIf(cfg.jython, "jython")
        \o TokenIf(cfg.pypy, "pypy")

\* the three conditional appends, in the order of the if statements
FlagTokens(cfg) ==
    TokenIf(cfg.jython, "jython") \o TokenIf(cfg.pypy, "pypy")
        \o TokenIf(cfg.win32, "win")

\* "nativeunicode" if config.db.dialect.convert_unicode else "dbapiunicode"
UnicodeToken(cfg) ==
    IF cfg.convert_unicode THEN <<"nativeunicode">> ELSE <<"dbapiunicode">>

\* _has_cext and "cextensions" or "nocextensions"
CextToken(cfg) ==
    IF cfg.cextensions THEN <<"cextensions">> ELSE <<"nocextensions">>

platform_tokens(cfg) ==
    <<py_version(cfg), dbapi_key(cfg)>> \o FlagTokens(cfg)
        \o <<UnicodeToken(cfg), CextToken(cfg)>>

\* the platform_key property evaluated in environment cfg
PlatformKey(cfg) == joinTokens("_", platform_tokens(cfg))

(* ------------------------- dialects: _auto_fn -------------------------- *)
(* A name is a sequence of words and "." separators; a token of a split    *)
(* name is the sequence of words between two separators.  The provider     *)
(* modules are a set of <<dialect, driver>> pairs of tokens: the package    *)
(* sqlalchemy.dialects.<dialect> has the attribute <driver>.               *)

\* most registry calls a run makes
MaxLoads == 3

\* _translates = {'postgres': 'postgresql'}
_translates == [dialect \in {<<"postgres">>} |-> <<"postgresql">>]

RECURSIVE splitName(_, _)
\* name.split("."): cur is the token being read
splitName(name, cur) ==
    IF Len(name) = 0 THEN <<cur>>
    ELSE IF Head(name) = "." THEN <<cur>> \o splitName(Tail(name), <<>>)
    ELSE splitName(Tail(name), Append(cur, Head(name)))

\* "." in name
HasDot(name) == \E i \in 1..Len(name) : name[i] = "."

\* the right-hand side with the dialect itself as the default driver
PartsDriverIsDialect(name) ==
    IF HasDot(name) THEN splitName(name, <<>>) ELSE <<name, name>>

\* the right-hand side of the assignment to dialect, driver in either branch
Parts(name) ==
    IF HasDot(name) THEN splitName(name, <<>>) ELSE <<name, <<"base">>>>

\* no call of util.warn_deprecated
WarnNothing(dialect) == <<>>

\* the messages util.warn_deprecated is called with for this dialect
WarnDeprecated(dialect) ==
    IF dialect \in DOMAIN _translates
    THEN <<[dialect |-> dialect, translated |-> _translates[dialect]]>>
    ELSE <<>>

\* dialect after the _translates step
Translated(dialect) ==
    IF dialect \in DOMAIN _translates THEN _translates[dialect] ELSE dialect

\* __import__('sqlalchemy.dialects.<dialect>') does not raise ImportError
Importable(mods, dialect) == \E m \in mods : m[1] = dialect

\* hasattr(module, driver)
hasattr(mods, dialect, driver) == <<dialect, driver>> \in mods

\* _auto_fn(name): the factory returned is named by the module it closes over
_auto_fn(name, mods) ==
    LET parts == Parts(name)
    IN  IF Len(parts) # 2
        THEN [raised |-> "ValueError", ret |-> None, warnings |-> <<>>]
        ELSE LET dialect == Translated(parts[1])
                 driver == parts[2]
                 found == Importable(mods, dialect)
                              /\ hasattr(mods, dialect, driver)
             IN  [raised |-> "none",
                  ret |-> IF found THEN <<dialect, driver>> ELSE None,
                  warnings |-> WarnDeprecated(parts[1])]

\* registry.load(name): the cache first, then the fallback resolver, whose
\* factory is cached under name and whose None is the lookup failure
load(cache, name, mods) ==
    IF name \in DOMAIN cache
    THEN [impls |-> cache, raised |-> "none", ret |-> cache[name],
          warnings |-> <<>>]
    ELSE LET r == _auto_fn(name, mods)
         IN  IF r.raised # "none"
             THEN [impls |-> cache, raised |-> r.raised, ret |-> None,
                   warnings |-> r.warnings]
             ELSE IF r.ret # None
             THEN [impls |-> SetItem(cache, name, r.ret), raised |-> "none",
                   ret |-> r.ret, warnings |-> r.warnings]
             ELSE [impls |-> cache, raised |-> "NoSuchModuleError",
                   ret |-> None, warnings |-> r.warnings]

(* --------------------------- state and actions ------------------------- *)

VARIABLES
    data,           \* self.data
    file,           \* the backing file self.fname names
    write,          \* self.write
    force_write,    \* self.force_write
    _current_test,  \* the module global the harness sets
    last,           \* the last call made: what it was given, returned, raised
    written,        \* history: the file has been opened for writing
    loaded,         \* history: self.data as _read left it at construction
    ncalls,         \* history: result() calls made so far, per test key
    unflushed,      \* the buffers of the file objects _write left unclosed
    active,         \* <<variance>> while the body of a with-statement on
                    \* count_functions(variance) runs, <<>> otherwise
    cProfile,       \* whether "import cProfile" succeeded
    config,         \* the environment platform_key reads
    key,            \* the platform key last computed
    modules,        \* the dialect modules that can be imported, with drivers
    impls,          \* the registry's cache of resolved names
    warned,         \* the deprecation notices emitted so far
    loads,          \* the registry calls made so far: name and outcome
    trace,          \* the measurements the write-mode run was fed
    pos             \* how many of them the strict-mode rerun has been fed

\* the variables outside the ledger
others == <<cProfile, config, key, modules, impls, warned, loads, trace, pos>>

vars == <<data, file, write, force_write, _current_test, last, written, loaded,
          ncalls, unflushed, active, others>>

\* the missing backing file
NoFile == [exists |-> FALSE, lines |-> <<>>]

FileOf(lines) == [exists |-> TRUE, lines |-> lines]

\* backing files a run may start from
InitialFiles ==
    { NoFile,
      FileOf(<<>>),
      FileOf(<<CommentLine, BlankLine, DataLine("t1", "p1", join(<<100>>))>>),
      FileOf(<<DataLine("t2", "p1", join(<<100, 106>>)),
               DataLine("t1", "p1", join(<<0>>))>>),
      FileOf(<<DataLine("t1", "p2", join(<<100>>)),
               DataLine("t1", "p1", join(<<105>>)),
               DataLine("t1", "p1", join(<<100, 100>>))>>),
      FileOf(<<DataLine("t2", "p2", join(<<-5, 100>>))>>) }

\* a write flag that follows the write_profiles option alone
WriteFlagOptionOnly(wr, fw) == wr

\* self.write = self.force_write or (... config.options.write_profiles)
WriteFlag(wr, fw) == fw \/ wr

\* __init__(filename) on the backing file f0 with the two options
Construct(f0, wr, fw) ==
    LET d0 == _read(f0, EmptyDict).data
    IN  /\ force_write = fw
        /\ write = WriteFlag(wr, fw)
        /\ data = d0
        /\ loaded = d0
        /\ file = IF WriteFlag(wr, fw) THEN _write(d0).file ELSE f0
        /\ written = WriteFlag(wr, fw)
        /\ ncalls = [t \in Tests |-> 0]
        /\ unflushed = <<>>
        /\ active = None
        /\ last = [op |-> "init", test |-> "", callcount |-> 0,
                   variance |-> 0, raised |-> "none", ret |-> None]

\* the environment of the run the ledger specifications follow
RunningConfig ==
    [version |-> <<3, 11, 4>>, name |-> "sqlite", driver |-> "pysqlite",
     jython |-> FALSE, pypy |-> FALSE, win32 |-> FALSE,
     convert_unicode |-> FALSE, cextensions |-> FALSE]

\* the platform key not read
KeyIdle ==
    /\ config = RunningConfig
    /\ key = <<>>

\* the registry not used
RegistryIdle ==
    /\ modules = {}
    /\ impls = EmptyDict
    /\ warned = <<>>
    /\ loads = <<>>

\* the variables outside the ledger before anything has used them
AtRest ==
    /\ KeyIdle
    /\ RegistryIdle
    /\ trace = <<>>
    /\ pos = 0

\* a ledger constructed on any backing file in any mode
Constructed ==
    /\ \E f0 \in InitialFiles, wr \in BOOLEAN, fw \in BOOLEAN :
           Construct(f0, wr, fw)
    /\ _current_test \in Tests
    /\ AtRest

Init ==
    /\ Constructed
    /\ cProfile = TRUE

\* the record of _current_test can take another result() within the bound
InBound(test_key) ==
    LET per_platform == WithDefaults(GetRecord(data, test_key, platform_key))
    IN  /\ ncalls[test_key] < MaxCalls
        /\ \/ has_count(per_platform.counts, per_platform.current_count)
           \/ Len(per_platform.counts) < MaxLen

\* the ledger after a call that left r; a call that leaves a file object
\* unclosed is made while fewer than MaxLeaks are pending
ApplyLedger(op, callcount, variance, r) ==
    /\ r.leak # <<>> => Len(unflushed) < MaxLeaks
    /\ data' = r.data
    /\ file' = r.file
    /\ written' = (written \/ r.wrote)
    /\ last' = [op |-> op, test |-> _current_test, callcount |-> callcount,
                variance |-> variance, raised |-> r.raised, ret |-> r.ret]
    /\ ncalls' = IF op \in {"result", "count_functions"}
                 THEN [ncalls EXCEPT ![_current_test] = @ + 1] ELSE ncalls
    /\ unflushed' = IF r.leak = <<>> THEN unflushed
                    ELSE Append(unflushed, r.leak)
    /\ UNCHANGED <<write, force_write, _current_test, loaded>>

\* the state after a method call that left r
Apply(op, callcount, r) ==
    /\ ApplyLedger(op, callcount, 0, r)
    /\ UNCHANGED <<active, others>>

\* _current_test is set to another test
SetCurrentTest ==
    /\ \E t \in Tests \ {_current_test} : _current_test' = t
    /\ last' = [op |-> "set_test", test |-> _current_test, callcount |-> 0,
                variance |-> 0, raised |-> "none", ret |-> None]
    /\ UNCHANGED <<data, file, write, force_write, written, loaded, ncalls,
                   unflushed, active, others>>

Result ==
    /\ InBound(_current_test)
    /\ \E callcount \in DirectCounts :
           Apply("result", callcount,
                 result(data, file, write, _current_test, callcount))

Replace ==
    /\ _current_test \in Tests
    /\ \E callcount \in DirectCounts :
           Apply("replace", callcount,
                 replace(data, file, write, _current_test, callcount))

\* the exception a failed _write raised is let go: the file object it left
\* unclosed is collected and its buffer is flushed into the file
Release ==
    /\ \E i \in 1..Len(unflushed) :
           /\ file' = [exists |-> TRUE,
                       lines |-> Overlay(unflushed[i], file.lines)]
           /\ unflushed' = SubSeq(unflushed, 1, i - 1)
                               \o SubSeq(unflushed, i + 1, Len(unflushed))
    /\ last' = [op |-> "close", test |-> _current_test, callcount |-> 0,
                variance |-> 0, raised |-> "none", ret |-> None]
    /\ UNCHANGED <<data, write, force_write, _current_test, written, loaded,
                   ncalls, active, others>>

\* "with count_functions(variance):" is entered: the generator runs up to
\* its yield, or raises and the body does not run
Enter(variance) ==
    /\ active = None
    /\ LET e == count_functions_enter(data, write, _current_test, cProfile)
       IN  /\ active' = IF e = "none" THEN <<variance>> ELSE None
           /\ last' = [op |-> IF e = "none" THEN "enter"
                                ELSE "count_functions",
                       test |-> _current_test, callcount |-> 0,
                       variance |-> variance, raised |-> e, ret |-> None]
    /\ UNCHANGED <<data, file, write, force_write, _current_test, written,
                   loaded, ncalls, unflushed>>

\* the body of the with-statement returns after callcount profiled calls:
\* the generator runs from its yield to its end
Exit(callcount) ==
    /\ active # None
    /\ ApplyLedger("count_functions", callcount, active[1],
                   count_functions_exit(data, file, write, force_write,
                                        _current_test, callcount, active[1]))
    /\ active' = None

CountFunctionsEnter ==
    /\ \E variance \in Variances : Enter(variance)
    /\ UNCHANGED others

CountFunctionsExit ==
    /\ InBound(_current_test)
    /\ \E callcount \in CallCounts : Exit(callcount)
    /\ UNCHANGED others

\* the body of the with-statement raises: the exception is thrown into the
\* generator at its yield and nothing after the yield runs
BodyRaises ==
    /\ active # None
    /\ active' = None
    /\ last' = [op |-> "body_raised", test |-> _current_test, callcount |-> 0,
                variance |-> active[1], raised |-> "ValueError", ret |-> None]
    /\ UNCHANGED <<data, file, write, force_write, _current_test, written,
                   loaded, ncalls, unflushed, others>>

\* direct calls of result() and replace(), in any order
Next == SetCurrentTest \/ Result \/ Replace \/ Release

Spec == Init /\ [][Next]_vars

\* with or without the profiler
InitRun ==
    /\ Constructed
    /\ cProfile \in BOOLEAN

\* the calls the tests make: result(), and count_functions around a body
\* that may set _current_test, call result() or raise; replace() only as
\* count_functions issues it
NextRun ==
    \/ SetCurrentTest
    \/ Result
    \/ CountFunctionsEnter
    \/ CountFunctionsExit
    \/ BodyRaises

SpecRun == InitRun /\ [][NextRun]_vars

\* one record with one historical count, in any mode
InitTol ==
    /\ \E expected_count \in 0..MaxCount, wr \in BOOLEAN, fw \in BOOLEAN :
           Construct(FileOf(<<DataLine("t1", platform_key,
                                       join(<<expected_count>>))>>), wr, fw)
    /\ _current_test = "t1"
    /\ AtRest
    /\ cProfile \in BOOLEAN

\* the body returns while the cursor is on a historical count
Measure ==
    /\ has_stats(data, _current_test)
    /\ LET per_platform == GetRecord(data, _current_test, platform_key)
       IN  has_count(per_platform.counts, per_platform.current_count)
    /\ \E callcount \in 0..MaxCount : Exit(callcount)
    /\ UNCHANGED others

SpecTol == InitTol /\ [][CountFunctionsEnter \/ Measure]_vars

\* _write() called on its own; last.callcount counts the saves made in a row
Write ==
    /\ last.op = "_write" => last.callcount < MaxSaves
    /\ LET w == _write(data)
       IN  Apply("_write",
                 IF last.op = "_write" THEN last.callcount + 1 ELSE 1,
                 [data |-> data, file |-> w.file, raised |-> w.raised,
                  ret |-> None, wrote |-> TRUE, leak |-> w.leak])

\* direct calls of the three methods that write, in any order
NextSave == SetCurrentTest \/ Result \/ Replace \/ Write \/ Release

\* the missing backing file and the one with three data lines, in strict
\* and in write mode
InitSave ==
    /\ \E f0 \in {f \in InitialFiles :
                     ~f.exists \/ Len(DataLines(f.lines)) >= 3},
          wr \in BOOLEAN :
           Construct(f0, wr, FALSE)
    /\ _current_test \in Tests
    /\ AtRest
    /\ cProfile = TRUE

SpecSave == InitSave /\ [][NextSave]_vars

\* construction when the backing file does not exist
InitMissing ==
    /\ \E wr \in BOOLEAN, fw \in BOOLEAN : Construct(NoFile, wr, fw)
    /\ _current_test \in Tests
    /\ AtRest
    /\ cProfile \in BOOLEAN

SpecMissing == InitMissing /\ [][NextRun]_vars

\* sys.version_info values, the db names and the drivers of the environments
Versions == {<<2, 7, 18>>, <<3, 11, 0>>, <<3, 11, 4>>}

DbNames == {"sqlite", "postgresql"}

DbDrivers == {"pysqlite", "psycopg2"}

\* the environments a test run can be in; jython and pypy are two
\* interpreters, so at most one of the two flags is set
Environments ==
    {cfg \in [version : Versions, name : DbNames, driver : DbDrivers,
              jython : BOOLEAN, pypy : BOOLEAN, win32 : BOOLEAN,
              convert_unicode : BOOLEAN, cextensions : BOOLEAN] :
        ~(cfg.jython /\ cfg.pypy)}

\* a ledger that is constructed and not used
LedgerIdle ==
    /\ Construct(NoFile, FALSE, FALSE)
    /\ _current_test = "t1"
    /\ trace = <<>>
    /\ pos = 0

InitKey ==
    /\ LedgerIdle
    /\ RegistryIdle
    /\ cProfile = TRUE
    /\ config \in Environments
    /\ key = <<>>

\* self.platform_key is read
ReadPlatformKey ==
    /\ key' = PlatformKey(config)
    /\ UNCHANGED <<data, file, write, force_write, _current_test, last,
                   written, loaded, ncalls, unflushed, active, cProfile,
                   config, modules, impls, warned, loads, trace, pos>>

\* the test run moves to another environment
ChangeEnvironment ==
    /\ config' \in Environments
    /\ key' = <<>>
    /\ UNCHANGED <<data, file, write, force_write, _current_test, last,
                   written, loaded, ncalls, unflushed, active, cProfile,
                   modules, impls, warned, loads, trace, pos>>

NextKey == ReadPlatformKey \/ ChangeEnvironment

SpecKey == InitKey /\ [][NextKey]_vars

\* the words a name is made of
Families == {"postgres", "postgresql", "nosuch"}

Variants == {"base", "psycopg2", "nodriver"}

\* the names passed to the registry: a family, a family and a variant, a
\* family with an empty variant, two separators, and the empty name
Names ==
    {<<f>> : f \in Families}
        \cup {<<f, ".", v>> : f \in Families, v \in Variants}
        \cup {<<f, ".">> : f \in Families}
        \cup {<<f, ".", "base", ".", "base">> : f \in Families}
        \cup {<<>>}

\* the provider modules installed: postgresql with or without psycopg2
Installations ==
    {{<<(<<"postgresql">>), (<<"base">>)>>,
      <<(<<"postgresql">>), (<<"psycopg2">>)>>},
     {<<(<<"postgresql">>), (<<"base">>)>>}}

\* registry = util.PluginLoader("sqlalchemy.dialects", auto_fn=_auto_fn)
InitRegistry ==
    /\ LedgerIdle
    /\ KeyIdle
    /\ cProfile = TRUE
    /\ modules \in Installations
    /\ impls = EmptyDict
    /\ warned = <<>>
    /\ loads = <<>>

\* the state after the registry call op(name) that left r with the cache c
ApplyRegistry(op, name, r, c) ==
    /\ impls' = c
    /\ warned' = warned \o [i \in 1..Len(r.warnings) |->
                               [call |-> Len(loads) + 1, name |-> name,
                                dialect |-> r.warnings[i].dialect,
                                translated |-> r.warnings[i].translated]]
    /\ loads' = Append(loads, [op |-> op, name |-> name, raised |-> r.raised,
                               ret |-> r.ret])
    /\ UNCHANGED <<data, file, write, force_write, _current_test, last,
                   written, loaded, ncalls, unflushed, active, cProfile,
                   config, key, modules, trace, pos>>

\* registry.load(name)
Load ==
    \E name \in Names :
        /\ Len(loads) < MaxLoads
        /\ LET r == load(impls, name, modules)
           IN  ApplyRegistry("load", name, r, r.impls)

\* _auto_fn(name), called without the registry
AutoFn ==
    \E name \in Names :
        /\ Len(loads) < MaxLoads
        /\ ApplyRegistry("_auto_fn", name, _auto_fn(name, modules), impls)

SpecLoad == InitRegistry /\ [][Load]_vars

SpecAutoFn == InitRegistry /\ [][AutoFn]_vars

\* most measurements the write-mode run is fed
MaxTrace == 3

\* call counts of the re-baselining runs: with the variance 0.05, 105 is
\* within tolerance of a stored 100 and 106 is not; with 0.1 both are
RebaseCounts == {0, 105, 106}

\* a write-mode ledger that is not forced, on any backing file
InitRebase ==
    /\ \E f0 \in InitialFiles : Construct(f0, TRUE, FALSE)
    /\ _current_test \in Tests
    /\ AtRest
    /\ cProfile \in BOOLEAN

\* the harness moves to another test between two tests
NextTest ==
    /\ active = None
    /\ SetCurrentTest

\* the write-mode run starts a measurement of the current test
FeedEnter ==
    /\ write
    /\ Len(trace) < MaxTrace
    /\ \E variance \in Variances : Enter(variance)
    /\ UNCHANGED others

\* the measured body returns: the measurement is kept with what result()
\* answered
FeedExit ==
    /\ write
    /\ InBound(_current_test)
    /\ \E callcount \in RebaseCounts :
           /\ Exit(callcount)
           /\ trace' = Append(trace, [test |-> _current_test,
                                      variance |-> active[1],
                                      callcount |-> callcount,
                                      expected |-> last'.ret])
    /\ UNCHANGED <<pos, cProfile, config, key, modules, impls, warned, loads>>

\* the run ends; a new process constructs a strict-mode ledger on the file
\* the run left: __init__ with neither option set
Restart ==
    /\ write
    /\ active = None
    /\ Len(trace) > 0
    /\ LET d0 == _read(file, EmptyDict).data
       IN  /\ data' = d0
           /\ loaded' = d0
    /\ force_write' = FALSE
    /\ write' = FALSE
    /\ written' = FALSE
    /\ ncalls' = [t \in Tests |-> 0]
    /\ last' = [op |-> "init", test |-> "", callcount |-> 0,
                variance |-> 0, raised |-> "none", ret |-> None]
    /\ UNCHANGED <<file, _current_test, unflushed, active, others>>

\* the strict-mode run starts the measurement the write-mode run made at
\* the same place, with the same variance
ReplayEnter ==
    /\ ~write
    /\ pos < Len(trace)
    /\ _current_test = trace[pos + 1].test
    /\ Enter(trace[pos + 1].variance)
    /\ UNCHANGED others

\* the measured body returns after the calls it made in the write-mode run
ReplayExit ==
    /\ ~write
    /\ pos < Len(trace)
    /\ Exit(trace[pos + 1].callcount)
    /\ pos' = pos + 1
    /\ UNCHANGED <<trace, cProfile, config, key, modules, impls, warned,
                   loads>>

NextRebase ==
    \/ NextTest
    \/ FeedEnter
    \/ FeedExit
    \/ Restart
    \/ ReplayEnter
    \/ ReplayExit

SpecRebase == InitRebase /\ [][NextRebase]_vars

(* ------------------------------ properties ----------------------------- *)

\* the (test, platform) pairs that have a per_platform dict in d
Pairs(d) == UNION {{<<t, p>> : p \in DOMAIN d[t]} : t \in DOMAIN d}

\* the pairs of d whose dict holds a counts list
CountedPairs(d) == {tp \in Pairs(d) : "counts" \in DOMAIN d[tp[1]][tp[2]]}

\* the dict of _current_test on the running platform
Current(d) == GetRecord(d, _current_test, platform_key)

\* the dict the last call worked on
LastRecord == GetRecord(data, last.test, platform_key)

\* the last step ran count_functions from its yield on: the body of the
\* with-statement had returned
LastExited ==
    /\ last.op = "count_functions"
    /\ last.raised \notin {"SkipTest", "NameError"}

\* the last step called result(), directly or through count_functions
LastCalledResult == last.op = "result" \/ LastExited

CursorWithinCounts ==
    \A tp \in Pairs(data) :
        LET r == data[tp[1]][tp[2]]
        IN  "current_count" \in DOMAIN r =>
                "counts" \in DOMAIN r /\ r.current_count <= Len(r.counts)

CursorNeverDecreases ==
    \A tp \in Pairs(data) :
        "current_count" \in DOMAIN data[tp[1]][tp[2]] =>
            /\ tp \in Pairs(data')
            /\ "current_count" \in DOMAIN data'[tp[1]][tp[2]]
            /\ data'[tp[1]][tp[2]].current_count
                   >= data[tp[1]][tp[2]].current_count

\* C1: in every state reached by construction, result() and replace(), the
\* current_count of every record is at most len(counts), and no call ever
\* lowers a record's current_count.
C1_CursorBounded == []CursorWithinCounts /\ [][CursorNeverDecreases]_vars

\* a record whose cursor has reached the end of a list of two or more counts,
\* just after a replace()
C1_Witness ==
    /\ last.op = "replace" /\ last.raised = "none"
    /\ "current_count" \in DOMAIN LastRecord
    /\ LastRecord.current_count = Len(LastRecord.counts)
    /\ LastRecord.current_count >= 2

\* the historical count the last call found at the cursor, for a loaded record
HistoricalAtCursor == loaded[last.test][platform_key].counts[ncalls[last.test]]

\* C2 (as claimed): in strict mode, for every historical count >= 0 at the
\* cursor, every actual count and every variance, count_functions raises
\* the regression failure exactly when
\* abs(actual - expected) > floor(actual * variance).
C2_StrictRaisesIffOutsideTolerance ==
    (LastExited /\ ~write) =>
        ((last.raised = "AssertionError") <=>
            Abs(last.callcount - HistoricalAtCursor)
                > (last.callcount * last.variance) \div 100)

\* the last step compared against a stored 100 in strict mode with the
\* variance 0.05
StrictAgainst100 ==
    /\ LastExited /\ ~write
    /\ last.variance = 5
    /\ HistoricalAtCursor = 100

\* C3 (as claimed): with expected = 100 and variance 0.05 in strict mode,
\* actual 105 and 95 pass and actual 106 and 94 fail.
C3_BoundaryAsClaimed ==
    StrictAgainst100 =>
        /\ last.callcount \in {105, 95} => last.raised = "none"
        /\ last.callcount \in {106, 94} => last.raised = "AssertionError"

\* C3 (amended): with expected = 100 and variance 0.05 in strict mode,
\* actual 105 passes and actual 95, 106 and 94 fail (the tolerance of 95 is
\* floor(95 * 0.05) = 4).
C3_Boundary ==
    StrictAgainst100 =>
        /\ last.callcount = 105 => last.raised = "none"
        /\ last.callcount \in {95, 106, 94} => last.raised = "AssertionError"

\* actual 95 measured against expected 100 in strict mode
C3_Witness ==
    /\ StrictAgainst100
    /\ last.callcount = 95
    /\ last.raised = "AssertionError"

\* the record of the last call was read from the file
LastLoaded ==
    /\ last.test \in DOMAIN loaded
    /\ platform_key \in DOMAIN loaded[last.test]

\* C4: for a record loaded with n counts, the k-th result() call returns the
\* k-th loaded count for k <= n; a later call appends its callcount and
\* returns None; after the k-th call the cursor is k.
C4_CursorWalksHistory ==
    (LastCalledResult /\ LastLoaded) =>
        LET k == ncalls[last.test]
            hist == loaded[last.test][platform_key]
        IN  /\ LastRecord.current_count = k
            /\ k <= Len(hist.counts) =>
                   last.ret = <<hist.lineno, hist.counts[k]>>
            /\ k > Len(hist.counts) =>
                   /\ last.ret = None
                   /\ Len(LastRecord.counts) = k
                   /\ LastRecord.counts[k] = last.callcount

\* a loaded record with one count after its second result() call, made by
\* count_functions in write mode after the first slot was replaced
C4_Witness ==
    /\ last.op = "count_functions" /\ LastLoaded /\ write
    /\ Len(loaded[last.test][platform_key].counts) = 1
    /\ ncalls[last.test] = 2
    /\ last.ret = None
    /\ LastRecord.counts[1] # loaded[last.test][platform_key].counts[1]

\* C5: a result(callcount) for a pair absent from data creates the record
\* with counts = [callcount], returns None, and has_stats() is true after it.
C5_NewBaselineAppends ==
    [][(LastCalledResult' /\ ~has_stats(data, _current_test)) =>
          /\ last'.raised = "none"
          /\ last'.ret = None
          /\ has_stats(data', _current_test)
          /\ Current(data').counts = <<last'.callcount>>]_vars

\* a record created by result() in this run
C5_Witness ==
    /\ last.op = "result" /\ last.ret = None
    /\ ~LastLoaded
    /\ has_stats(data, last.test)
    /\ LastRecord.counts = <<last.callcount>>

\* the last step called replace() on a record that holds counts
ReplaceStep ==
    /\ last'.op = "replace"
    /\ "counts" \in DOMAIN Current(data)

\* C6 (as claimed): replace(callcount) assigns the slot the preceding
\* result() consumed, or appends callcount when the cursor is past the end
\* of counts (current_count >= len(counts)).
C6_ReplaceOrAppendAsClaimed ==
    [][(ReplaceStep /\ Current(data).current_count >= 1) =>
          LET counts == Current(data).counts
              current_count == Current(data).current_count
          IN  Current(data').counts =
                  IF current_count < Len(counts)
                  THEN [counts EXCEPT ![current_count] = last'.callcount]
                  ELSE Append(counts, last'.callcount)]_vars

\* C6 (amended): replace(callcount) never appends: it assigns callcount to
\* the slot at index current_count - 1, the slot the preceding result()
\* consumed, which is the last slot when the cursor has reached the end of
\* counts (and, with no preceding result(), to the last slot); len(counts)
\* is unchanged.
C6_ReplaceInPlace ==
    [][ReplaceStep =>
          LET counts == Current(data).counts
              current_count == Current(data).current_count
              slot == IF current_count >= 1 THEN current_count ELSE Len(counts)
          IN  /\ Len(Current(data').counts) = Len(counts)
              /\ Current(data').counts =
                     [counts EXCEPT ![slot] = last'.callcount]
              /\ Current(data').current_count = current_count]_vars

\* a replace() with the cursor at the end of two counts, which changed the
\* last slot and left the first
C6_Witness ==
    /\ last.op = "replace" /\ last.raised = "none"
    /\ "counts" \in DOMAIN LastRecord
    /\ Len(LastRecord.counts) = 2
    /\ LastRecord.current_count = 2
    /\ LastRecord.counts[2] = last.callcount
    /\ LastRecord.counts[1] # last.callcount

\* the last call measured an actual count within tolerance of the historical
\* count at the cursor
WithinTolerance ==
    /\ LastExited
    /\ Abs(last.callcount - HistoricalAtCursor)
           <= (last.callcount * last.variance) \div 100

\* C7 (as claimed): in every mode, an actual count within tolerance of the
\* historical count at the cursor leaves counts unchanged and raises nothing.
C7_OverwriteOnlyOnMismatchAsClaimed ==
    WithinTolerance =>
        /\ last.raised = "none"
        /\ LastRecord.counts = loaded[last.test][platform_key].counts

\* C7 (amended): an actual count within tolerance never raises; it leaves
\* counts unchanged in strict and write mode, and in force-write mode the
\* slot at the cursor is overwritten with the actual count whenever the
\* historical count is not 0.
C7_OverwriteOnlyOnMismatch ==
    WithinTolerance =>
        /\ last.raised = "none"
        /\ LastRecord.counts =
               IF force_write /\ HistoricalAtCursor # 0
               THEN <<last.callcount>>
               ELSE loaded[last.test][platform_key].counts

\* force-write mode, an actual count within tolerance of a different
\* historical count
C7_Witness ==
    /\ WithinTolerance /\ force_write
    /\ last.callcount # HistoricalAtCursor
    /\ LastRecord.counts = <<last.callcount>>

\* the counts _read finds in the backing file equal the counts in memory
FileEqualsMemory ==
    LET r == _read(file, EmptyDict)
        on_file == r.data
    IN  /\ r.raised = "none"
        /\ Pairs(on_file) = CountedPairs(data)
        /\ \A tp \in Pairs(on_file) :
               on_file[tp[1]][tp[2]].counts = data[tp[1]][tp[2]].counts

\* C8 (as claimed): with write off the backing file is never written; with
\* write on, after construction and after every result() and replace() the
\* file holds the in-memory counts of every record.
C8_FlushedImmediatelyOrNever ==
    /\ ~write => ~written
    /\ write => FileEqualsMemory

\* C9 (as claimed): in every state reached by construction, result() and
\* replace(), _write succeeds and _read of what it wrote gives the same
\* pairs with the same counts.
C9_RoundTrip ==
    LET w == _write(data)
        back == _read(w.file, EmptyDict).data
    IN  /\ w.raised = "none"
        /\ Pairs(back) = Pairs(data)
        /\ \A tp \in Pairs(back) :
               back[tp[1]][tp[2]].counts = data[tp[1]][tp[2]].counts

\* C10 (as claimed): in strict mode a count_functions entered for a pair
\* without a baseline is skipped: it raises the skip and no regression
\* failure, the body does not run, result() is not called, data and the file
\* are unchanged.
C10_NoBaselineSkips ==
    [][(last'.op = "count_functions" /\ active = None /\ ~write
            /\ ~has_stats(data, _current_test)) =>
          /\ last'.raised = "SkipTest"
          /\ active' = None
          /\ ncalls' = ncalls
          /\ data' = data
          /\ file' = file]_vars

\* C11 (as claimed): with the backing file missing, construction gives an
\* empty baseline set and every later check records its count as a new
\* baseline entry, neither compared nor failed.
C11_MissingFileRecordsAsClaimed ==
    /\ last.op = "init" => Pairs(data) = {}
    /\ last.op = "count_functions" /\ cProfile =>
           /\ last.raised = "none"
           /\ last.ret = None
           /\ has_stats(data, last.test)
           /\ LastRecord.counts[Len(LastRecord.counts)] = last.callcount

\* C11 (amended): with the backing file missing, construction gives an empty
\* baseline set; a later check is never compared or failed: where cProfile
\* could not be imported it raises NameError before anything else; otherwise
\* it is skipped in strict mode while its pair has no record, and else
\* (always, in write mode) its count is appended as a new baseline entry.
C11_MissingFileRecordsOrSkips ==
    /\ last.op = "init" => Pairs(data) = {} /\ last.raised = "none"
    /\ last.op = "count_functions" =>
           /\ last.ret = None
           /\ last.raised \in {"none", "SkipTest", "NameError"}
           /\ last.raised = "NameError" <=> ~cProfile
           /\ last.raised = "SkipTest" => ~write /\ ~has_stats(data, last.test)
           /\ last.raised = "none" =>
                  /\ has_stats(data, last.test)
                  /\ LastRecord.current_count = Len(LastRecord.counts)
                  /\ LastRecord.counts[Len(LastRecord.counts)] = last.callcount

\* write mode on a missing file: the second check of a test recorded as a
\* second baseline entry
C11_Witness ==
    /\ last.op = "count_functions" /\ write /\ last.raised = "none"
    /\ loaded = EmptyDict
    /\ Len(LastRecord.counts) = 2
    /\ LastRecord.counts[2] = last.callcount

\* data lines ascend by test identifier and then by platform key
Ascending(lines) ==
    \A i, j \in 1..Len(lines) :
        i < j =>
            \/ KeyRank(lines[i].test_key) < KeyRank(lines[j].test_key)
            \/ /\ lines[i].test_key = lines[j].test_key
               /\ KeyRank(lines[i].platform_key) < KeyRank(lines[j].platform_key)

\* C12: a _write() that directly follows a _write() leaves the file exactly
\* as the first left it, and the data lines of every file _write() leaves
\* ascend by test identifier and then by platform key.
C12_SaveTwiceIdentical ==
    [][last'.op = "_write" =>
          /\ Ascending(DataLines(file'.lines))
          /\ last'.callcount >= 2 => file' = file]_vars

\* the second save in a row of a ledger with two tests, one of them on two
\* platforms
C12_Witness ==
    /\ last.op = "_write" /\ last.callcount = 2 /\ last.raised = "none"
    /\ Len(DataLines(file.lines)) = 3

\* the text of the interpreter's major.minor version
VersionText(cfg) == NatStr(cfg.version[1]) \o <<".">> \o NatStr(cfg.version[2])

\* C13: the platform key is the version, the db name and the driver, then
\* jython, pypy and win for the flags that are set, in that order, then one
\* of nativeunicode/dbapiunicode and one of cextensions/nocextensions, each
\* joined to the one before by an underscore; nothing else enters the key
C13_KeyTokensInOrder ==
    key # <<>> =>
        key = VersionText(config)
                \o <<"_", config.name, "_", config.driver>>
                \o (IF config.jython THEN <<"_", "jython">> ELSE <<>>)
                \o (IF config.pypy THEN <<"_", "pypy">> ELSE <<>>)
                \o (IF config.win32 THEN <<"_", "win">> ELSE <<>>)
                \o (IF config.convert_unicode THEN <<"_", "nativeunicode">>
                    ELSE <<"_", "dbapiunicode">>)
                \o (IF config.cextensions THEN <<"_", "cextensions">>
                    ELSE <<"_", "nocextensions">>)

\* a key read on pypy under Windows, with both trailing tokens in their
\* positive form
C13_Witness ==
    /\ key # <<>>
    /\ config.pypy /\ config.win32
    /\ config.convert_unicode /\ config.cextensions
    /\ key[Len(key)] = "cextensions"

\* the names the registry has been asked to load
LoadedNames == {loads[i].name : i \in 1..Len(loads)}

\* how many of the calls so far were for name
CallsFor(name) == Cardinality({i \in 1..Len(loads) : loads[i].name = name})

\* how many deprecation notices the calls for name emitted
NoticesFor(name) == Cardinality({i \in 1..Len(warned) : warned[i].name = name})

\* the family of the name is the renamed one
Aliased(name) == Len(name) > 0 /\ name[1] = "postgres"

\* the variant a name asks for
VariantOf(name) == IF Len(name) = 1 THEN <<"base">> ELSE SubSeq(name, 3, Len(name))

\* C14 as stated: every aliased name of at most one separator loaded so
\* far, however often, has emitted exactly one deprecation notice, and what
\* it resolved to is the factory of the canonical family
C14_NoticeOncePerAliasedName ==
    \A name \in LoadedNames :
        Aliased(name) /\ Len(name) <= 3 =>
            /\ NoticesFor(name) = 1
            /\ name \in DOMAIN impls => impls[name][1] = <<"postgresql">>

\* C14 amended: an aliased name that resolves is the canonical family's
\* factory for the variant asked for and has emitted one notice however
\* often it was loaded; an aliased name with at most one separator that does
\* not resolve has emitted one notice per load call; an aliased name with
\* more separators has emitted none; every notice names postgres and
\* postgresql
C14_NoticePerResolverCall ==
    /\ \A name \in LoadedNames :
           Aliased(name) =>
               IF name \in DOMAIN impls
               THEN /\ impls[name] = <<(<<"postgresql">>), VariantOf(name)>>
                    /\ NoticesFor(name) = 1
               ELSE IF Len(name) <= 3
               THEN NoticesFor(name) = CallsFor(name)
               ELSE NoticesFor(name) = 0
    /\ \A i \in 1..Len(warned) :
           /\ warned[i].dialect = <<"postgres">>
           /\ warned[i].translated = <<"postgresql">>
           /\ Aliased(warned[i].name)

\* an aliased name loaded twice with one notice, the second load answered
\* from the cache, and an aliased name that failed to resolve
C14_Witness ==
    /\ Len(loads) = 3
    /\ loads[1].name = <<"postgres", ".", "psycopg2">>
    /\ loads[2] = loads[1]
    /\ loads[2].raised = "none"
    /\ NoticesFor(loads[1].name) = 1
    /\ Aliased(loads[3].name) /\ loads[3].raised = "NoSuchModuleError"
    /\ Len(warned) = 2

\* C15: whatever the name, _auto_fn either returns a factory or returns
\* absent; it lets no error escape
C15_FactoryOrAbsent ==
    \A i \in 1..Len(loads) :
        loads[i].op = "_auto_fn" => loads[i].raised = "none"

\* a family asked for with and without the base variant
BaseName(name) == name \o <<".", "base">>

\* C16: _auto_fn called with a bare family has the outcome of _auto_fn
\* called with that family and the variant base: both absent, or both the
\* factory of the same provider module
C16_FamilyIsFamilyBase ==
    \A i \in 1..Len(loads) :
        loads[i].op = "_auto_fn" /\ Len(loads[i].name) = 1 =>
            LET r == _auto_fn(BaseName(loads[i].name), modules)
            IN  /\ loads[i].raised = r.raised
                /\ loads[i].ret = r.ret

\* a bare family that resolved, and its family.base name called right after
\* with the same factory
C16_Witness ==
    /\ Len(loads) >= 2
    /\ Len(loads[1].name) = 1
    /\ loads[1].ret # None
    /\ loads[2].name = BaseName(loads[1].name)
    /\ loads[2].ret = loads[1].ret
    /\ loads[1].op = "_auto_fn" /\ loads[2].op = "_auto_fn"

\* the last step of the strict-mode rerun was a count_functions that
\* raised at its entry or ran to its end
Replaying == ~write /\ last.op = "count_functions"

\* C17: in the strict-mode rerun on the file a write-mode run left, fed the
\* measurements of that run in the same order with the same variances, no
\* count_functions call raises the regression failure and none skips
C17_RebaselineConverges ==
    Replaying => last.raised \notin {"AssertionError", "SkipTest"}

\* the rerun has been fed the whole sequence, in which the write-mode run
\* met a stored count outside the tolerance of the measurement and one
\* within it
C17_Witness ==
    /\ Replaying
    /\ pos = Len(trace) /\ pos = MaxTrace
    /\ \E i \in 1..Len(trace) :
           /\ Truthy(trace[i].expected)
           /\ failed(trace[i].callcount, trace[i].expected[2],
                     trace[i].variance)
    /\ \E i \in 1..Len(trace) :
           /\ Truthy(trace[i].expected)
           /\ trace[i].expected[2] # trace[i].callcount
           /\ ~failed(trace[i].callcount, trace[i].expected[2],
                      trace[i].variance)

\* C18: a ledger constructed with force_write set has write set, and in
\* that mode no count_functions call raises the regression failure
C18_ForceWriteNeverFails ==
    /\ force_write => write
    /\ force_write /\ last.op = "count_functions" =>
           last.raised # "AssertionError"

\* a forced ledger whose count_functions met a stored count outside the
\* tolerance of the measurement and returned normally
C18_Witness ==
    /\ force_write
    /\ last.op = "count_functions"
    /\ Truthy(last.ret)
    /\ failed(last.callcount, last.ret[2], last.variance)
    /\ last.raised = "none"

\* the records that hold counts and no lineno: made by result() in this
\* run, not read from the file
InRunPairs == {tp \in CountedPairs(data) :
                  "lineno" \notin DOMAIN data[tp[1]][tp[2]]}

\* C19: after any result() or replace() call, every record made by result()
\* in this run has its cursor at the end of its counts, so that result()
\* never takes the comparing branch on a record without lineno
C19_InRunRecordsNeverCompared ==
    \A tp \in InRunPairs :
        LET per_platform == data[tp[1]][tp[2]]
        IN  /\ "current_count" \in DOMAIN per_platform
            /\ per_platform.current_count = Len(per_platform.counts)

====
